---------------------------- MODULE Spec2Model ----------------------------
(***************************************************************************)
(* A model of the notebook                                                 *)
(*   Building_AI_Applications_with_LangChain_and_GPT/notebook-solution     *)
(* The notebook is a linear sequence of code cells, each a call into a     *)
(* pinned library (langchain==0.0.191, chromadb==0.3.26, tiktoken==0.4.0,  *)
(* openai==0.27.1, pinned by the Task 0 cell).  The cells are the actions; *)
(* the kernel's variables, the persisted Chroma directories and the        *)
(* requests sent to the two remote APIs are the state.  What a library     *)
(* call does is modelled after the pinned release of that library.         *)
(*                                                                         *)
(* Text is a sequence of one-character strings.  The literal segments of   *)
(* the prompt template are single symbols.                                 *)
(***************************************************************************)
EXTENDS Integers, Sequences, FiniteSets, TLC

(***************************************************************************)
(* Bounds of the model.                                                    *)
(***************************************************************************)
MaxLen == 5
MaxChunk == 3
MaxK == 2
MaxQueries == 4
MaxCostDocs == 2

(***************************************************************************)
(* The state: the kernel's variables, the directories, the API requests.   *)
(***************************************************************************)
VARIABLES
    pc,             \* the next cell to run, "done" or "error"
    error,          \* the exception that stopped the run, "" when none
    ran,            \* the cells that have completed
    api_key,        \* whether OPENAI_API_KEY is in the environment
    files,          \* the rtdocs directory
    chunk_size, chunk_overlap, k,
    raw_documents,  \* Task 1
    documents,      \* Task 2
    doc_tokens, total_tokens, cost_estimate,   \* Task 3
    embedding,      \* the OpenAIEmbeddings object: its model, "none" before
    disk,           \* the rows persisted in each directory
    db,             \* the Chroma handle: its directory, entries and model
    next_id,        \* the next fresh entry id
    ingested,       \* the store Task 4 built, as it was when the cell ended
    embed_requests, \* the texts sent to the embedding API, request by request
    attempts,       \* how many times the last API request was sent
    query_log,      \* every retrieval: question, k and what it returned
    query, results, \* Step 5
    question, context_docs, result,   \* Step 6
    chat_log        \* the requests sent to the chat-completion API

inputVars == <<api_key, files, chunk_size, chunk_overlap, k>>
taskVars == <<raw_documents, documents, doc_tokens, total_tokens, cost_estimate>>
storeVars == <<embedding, disk, db, next_id, ingested>>
askVars == <<query_log, query, results, question, context_docs, result, chat_log>>
vars == <<pc, error, ran, inputVars, taskVars, storeVars, askVars, embed_requests,
          attempts>>

Letters == {"a", "b"}
Whitespace == {" ", "\n"}
Alphabet == Letters \cup Whitespace

Texts == UNION {[1..n -> Alphabet] : n \in 0..MaxLen}

(***************************************************************************)
(* Helpers on text: Python's str.strip, str.join, the `in` test.           *)
(***************************************************************************)
RECURSIVE LStrip(_)
LStrip(s) ==
    IF s # <<>> /\ Head(s) \in Whitespace THEN LStrip(Tail(s)) ELSE s

RECURSIVE RStrip(_)
RStrip(s) ==
    IF s # <<>> /\ s[Len(s)] \in Whitespace
    THEN RStrip(SubSeq(s, 1, Len(s) - 1))
    ELSE s

Strip(s) == RStrip(LStrip(s))

RECURSIVE Join(_, _)
Join(parts, sep) ==
    IF parts = <<>> THEN <<>>
    ELSE IF Len(parts) = 1 THEN parts[1]
    ELSE parts[1] \o sep \o Join(Tail(parts), sep)

OccursAt(text, sep, i) ==
    /\ i >= 1
    /\ i + Len(sep) - 1 <= Len(text)
    /\ SubSeq(text, i, i + Len(sep) - 1) = sep

Contains(text, sep) == \E i \in 1..(Len(text) + 1) : OccursAt(text, sep, i)

IsSubstring(part, text) == Contains(text, part)

(***************************************************************************)
(* langchain.text_splitter, as RecursiveCharacterTextSplitter uses it.     *)
(***************************************************************************)
\* The default separators of RecursiveCharacterTextSplitter:
\* ["\n\n", "\n", " ", ""].
DefaultSeparators == << <<"\n", "\n">>, <<"\n">>, <<" ">>, <<>> >>

\* The start positions of the leftmost non-overlapping occurrences of sep
\* in text from position i on (re.split scans this way).
RECURSIVE Cuts(_, _, _)
Cuts(text, sep, i) ==
    IF i + Len(sep) - 1 > Len(text) THEN <<>>
    ELSE IF OccursAt(text, sep, i)
         THEN <<i>> \o Cuts(text, sep, i + Len(sep))
         ELSE Cuts(text, sep, i + 1)

\* The split of str.split: the separators are lost.
SplitTextDroppingSep(text, separator) ==
    IF separator = <<>>
    THEN [i \in 1..Len(text) |-> <<text[i]>>]
    ELSE LET starts == <<1 - Len(separator)>> \o Cuts(text, separator, 1)
             piece(n) == SubSeq(text, starts[n] + Len(separator),
                                IF n < Len(starts) THEN starts[n + 1] - 1
                                                   ELSE Len(text))
             all == [n \in 1..Len(starts) |-> piece(n)]
         IN  SelectSeq(all, LAMBDA s : s # <<>>)

\* _split_text(text, separator, keep_separator=True): each separator stays
\* at the head of the piece that follows it; "" splits into characters;
\* empty pieces are dropped.
SplitTextWithSep(text, separator) ==
    IF separator = <<>>
    THEN [i \in 1..Len(text) |-> <<text[i]>>]
    ELSE LET starts == <<1>> \o Cuts(text, separator, 1)
             piece(n) == SubSeq(text, starts[n],
                                IF n < Len(starts) THEN starts[n + 1] - 1
                                                   ELSE Len(text))
             all == [n \in 1..Len(starts) |-> piece(n)]
         IN  SelectSeq(all, LAMBDA s : s # <<>>)

\* TextSplitter._join_docs: join, strip; None (here <<>>) when nothing is left.
JoinDocs(docs, separator) == Strip(Join(docs, separator))

\* A loop that pops only to make room for the next piece, whatever the
\* overlap asked for.
RECURSIVE PopLoopForRoomOnly(_, _, _, _, _, _)
PopLoopForRoomOnly(cur, total, len, sepLen, cs, ov) ==
    IF cur # <<>> /\
       (total + len + (IF Len(cur) > 0 THEN sepLen ELSE 0) > cs /\ total > 0)
    THEN PopLoopForRoomOnly(Tail(cur),
                 total - (Len(cur[1]) + (IF Len(cur) > 1 THEN sepLen ELSE 0)),
                 len, sepLen, cs, ov)
    ELSE [cur |-> cur, total |-> total]

\* A window that is never shortened: the loop below left out.
PopLoopNoPop(cur, total, len, sepLen, cs, ov) == [cur |-> cur, total |-> total]

\* The `while` loop of _merge_splits that pops pieces off the front of the
\* current window until what is left fits the overlap and the next piece.
RECURSIVE PopLoop(_, _, _, _, _, _)
PopLoop(cur, total, len, sepLen, cs, ov) ==
    IF cur # <<>> /\
       (total > ov \/
        (total + len + (IF Len(cur) > 0 THEN sepLen ELSE 0) > cs /\ total > 0))
    THEN PopLoop(Tail(cur),
                 total - (Len(cur[1]) + (IF Len(cur) > 1 THEN sepLen ELSE 0)),
                 len, sepLen, cs, ov)
    ELSE [cur |-> cur, total |-> total]

\* One iteration of the `for d in splits` loop of _merge_splits.
MergeStep(st, d, separator, cs, ov) ==
    LET len == Len(d)
        sepLen == Len(separator)
        over == st.total + len + (IF Len(st.cur) > 0 THEN sepLen ELSE 0) > cs
        flush == over /\ Len(st.cur) > 0
        doc == JoinDocs(st.cur, separator)
        docs2 == IF flush /\ doc # <<>> THEN Append(st.docs, doc) ELSE st.docs
        popped == IF flush THEN PopLoop(st.cur, st.total, len, sepLen, cs, ov)
                           ELSE [cur |-> st.cur, total |-> st.total]
        cur3 == Append(popped.cur, d)
    IN  [docs |-> docs2,
         cur |-> cur3,
         total |-> popped.total + len + (IF Len(cur3) > 1 THEN sepLen ELSE 0)]

RECURSIVE MergeLoop(_, _, _, _, _, _)
MergeLoop(splits, j, st, separator, cs, ov) ==
    \* The loop's variables are assigned once per iteration: the state after
    \* the step is bound as a value before the next iteration starts.
    IF j > Len(splits) THEN st
    ELSE CHOOSE end \in { MergeLoop(splits, j + 1, next, separator, cs, ov) :
                              next \in {MergeStep(st, splits[j], separator, cs, ov)} } :
             TRUE

\* TextSplitter._merge_splits(splits, separator).
MergeSplits(splits, separator, cs, ov) ==
    CHOOSE docs \in
        { LET doc == JoinDocs(st.cur, separator)
          IN  IF doc # <<>> THEN Append(st.docs, doc) ELSE st.docs :
          st \in {MergeLoop(splits, 1, [docs |-> <<>>, cur |-> <<>>, total |-> 0],
                            separator, cs, ov)} } : TRUE

\* The index of the separator _split_text picks: the first that is "" or
\* occurs in the text; 0 when none does (then the last one is used).
RECURSIVE ChooseSep(_, _, _)
ChooseSep(text, separators, i) ==
    IF i > Len(separators) THEN 0
    ELSE IF separators[i] = <<>> \/ Contains(text, separators[i]) THEN i
    ELSE ChooseSep(text, separators, i + 1)

\* RecursiveCharacterTextSplitter._split_text(text, separators) and the
\* `for s in splits` loop inside it.
RECURSIVE SplitTextRec(_, _, _, _)
RECURSIVE SplitLoop(_, _, _, _, _, _, _, _)
SplitLoop(splits, j, good, final, newSeps, hasNew, cs, ov) ==
    LET flushed == final \o (IF good # <<>> THEN MergeSplits(good, <<>>, cs, ov)
                                            ELSE <<>>)
    IN  IF j > Len(splits) THEN flushed
        ELSE IF Len(splits[j]) < cs
             THEN CHOOSE end \in { SplitLoop(splits, j + 1, g, final,
                                             newSeps, hasNew, cs, ov) :
                                       g \in {Append(good, splits[j])} } : TRUE
             ELSE CHOOSE end \in { SplitLoop(splits, j + 1, <<>>, f,
                                             newSeps, hasNew, cs, ov) :
                                       f \in {flushed \o
                                              (IF hasNew
                                               THEN SplitTextRec(splits[j], newSeps, cs, ov)
                                               ELSE <<splits[j]>>)} } : TRUE

SplitTextRec(text, separators, cs, ov) ==
    \* The separator, splits, new_separators and the test on them are
    \* computed once, before the loop, as the assignments of the code do:
    \* they are bound as values.
    CHOOSE final \in
        { LET separator == IF i = 0 THEN separators[Len(separators)]
                                    ELSE separators[i]
              hasNew == i # 0 /\ separators[i] # <<>>
              newSeps == SubSeq(separators, i + 1, Len(separators))
          IN  CHOOSE end \in
                  { SplitLoop(splits, 1, <<>>, <<>>, ns, hn, cs, ov) :
                        splits \in {SplitTextWithSep(text, separator)},
                        ns \in {newSeps}, hn \in {hasNew} } : TRUE :
          i \in {ChooseSep(text, separators, 1)} } : TRUE

\* RecursiveCharacterTextSplitter.split_text(text).
SplitText(text, cs, ov) == SplitTextRec(text, DefaultSeparators, cs, ov)

\* TextSplitter.create_documents for one document: one chunk per piece of
\* split_text, each with a copy of the document's metadata.
ChunksOf(doc, cs, ov) ==
    CHOOSE chunks \in
        { [n \in 1..Len(pieces) |->
              [page_content |-> pieces[n], metadata |-> doc.metadata]] :
          pieces \in {SplitText(doc.page_content, cs, ov)} } : TRUE

RECURSIVE SplitDocuments(_, _, _)
SplitDocuments(docs, cs, ov) ==
    IF docs = <<>> THEN <<>>
    ELSE ChunksOf(Head(docs), cs, ov) \o SplitDocuments(Tail(docs), cs, ov)


(***************************************************************************)
(* Task 1: ReadTheDocsLoader.                                              *)
(***************************************************************************)
\* str.split("\n"): the lines of a text.
RECURSIVE Lines(_)
Lines(text) ==
    LET c == Cuts(text, <<"\n">>, 1)
    IN  IF c = <<>> THEN <<text>>
        ELSE <<SubSeq(text, 1, c[1] - 1)>> \o Lines(SubSeq(text, c[1] + 1, Len(text)))

\* ReadTheDocsLoader's _clean_data, applied to the visible text of the
\* page's main content: "\n".join([t for t in text.split("\n") if t]).
CleanData(text) == Join(SelectSeq(Lines(text), LAMBDA t : t # <<>>), <<"\n">>)

\* loader.load(): one Document per file, its path as metadata["source"].
LoadDocuments(fs) ==
    [n \in 1..Len(fs) |->
        [page_content |-> CleanData(fs[n].text),
         metadata |-> [source |-> fs[n].path]]]

(***************************************************************************)
(* Task 3: token count and cost estimate.                                  *)
(***************************************************************************)
\* A stand-in for len(encoder.encode(text)) of tiktoken's cl100k_base: a run
\* of letters is one token and takes one preceding space with it; every
\* other whitespace character is a token of its own.
TokenCount(text) ==
    Cardinality({i \in 1..Len(text) :
        \/ text[i] \in Letters /\ (i = 1 \/ text[i - 1] \notin Letters)
        \/ text[i] \in Whitespace /\
           ~(text[i] = " " /\ i < Len(text) /\ text[i + 1] \in Letters)})

\* doc_tokens = [len(encoder.encode(d.page_content)) for d in documents]
DocTokens(docs) == [n \in 1..Len(docs) |-> TokenCount(docs[n].page_content)]

RECURSIVE Sum(_)
Sum(ns) == IF ns = <<>> THEN 0 ELSE Head(ns) + Sum(Tail(ns))

\* Money is counted in units of 10^-7 dollar, so that the price of the
\* notebook, $0.0004 for 1000 tokens, is the whole number 4000 per 1000.
PricePer1k == 4000
PerTokens == 1000

\* The division done on whole numbers: (tokens // 1000) * price.
CostEstimateFloor(tokens) == (tokens \div PerTokens) * PricePer1k

\* cost_estimate = (sum(doc_tokens)/1000) * 0.0004, in exact arithmetic.
CostEstimate(tokens) == (tokens * PricePer1k) \div PerTokens

\* The f"{cost_estimate:.2f}" of the print: the estimate in whole cents.
UnitsPerCent == 100000
Cents(units) == (2 * units + UnitsPerCent) \div (2 * UnitsPerCent)

(***************************************************************************)
(* Task 4 and the cells after it: embeddings and the Chroma store.         *)
(***************************************************************************)
AdaModel == "text-embedding-ada-002"

\* A stand-in for the remote embedding model: the vector of a text counts
\* its letters.  It is a function of the model and the text alone.
Embed(model, text) ==
    IF model = AdaModel
    THEN << Cardinality({i \in 1..Len(text) : text[i] = "a"}),
            Cardinality({i \in 1..Len(text) : text[i] = "b"}) >>
    ELSE << Len(text), 0 >>

\* Chroma's default distance: squared L2.
Distance(u, v) == (u[1] - v[1]) * (u[1] - v[1]) + (u[2] - v[2]) * (u[2] - v[2])

ProvidedDir == "chroma-data-langchain-docs"
OwnDir == "my-embeddings"
Dirs == {ProvidedDir, OwnDir}

\* An add_texts that would pair every text with the first vector of the
\* batch.
AddTextsFirstVector(entries, docs, model, firstId) ==
    entries \o [n \in 1..Len(docs) |->
                   [id |-> firstId + n - 1,
                    vector |-> Embed(model, docs[1].page_content),
                    text |-> docs[n].page_content,
                    metadata |-> docs[n].metadata]]

\* Chroma.add_texts: one entry per text, in order, each with a fresh id,
\* the vector embed_documents returned for it, the text and the metadata.
AddTexts(entries, docs, model, firstId) ==
    entries \o [n \in 1..Len(docs) |->
                   [id |-> firstId + n - 1,
                    vector |-> Embed(model, docs[n].page_content),
                    text |-> docs[n].page_content,
                    metadata |-> docs[n].metadata]]

\* db.persist(): the rows written to the directory, one per entry:
\* (uuid, embedding, document, metadata).
Persist(entries) ==
    [n \in 1..Len(entries) |->
        <<entries[n].id, entries[n].vector, entries[n].text, entries[n].metadata>>]

\* A load that would read the rows back without their metadata.
LoadStoreNoMetadata(rows) ==
    [n \in 1..Len(rows) |->
        [id |-> rows[n][1], vector |-> rows[n][2],
         text |-> rows[n][3], metadata |-> [source |-> ""]]]

\* Chroma(persist_directory=...): the entries read back from the rows of the
\* directory.  Nothing is embedded.
LoadStore(rows) ==
    [n \in 1..Len(rows) |->
        [id |-> rows[n][1], vector |-> rows[n][2],
         text |-> rows[n][3], metadata |-> rows[n][4]]]

\* The indices of the entries, nearest first; entries at the same distance
\* stay in insertion order.
RECURSIVE RankFrom(_, _, _)
RankFrom(entries, qv, left) ==
    IF left = {} THEN <<>>
    ELSE LET best == CHOOSE i \in left : \A j \in left :
                        \/ Distance(entries[i].vector, qv) < Distance(entries[j].vector, qv)
                        \/ /\ Distance(entries[i].vector, qv) = Distance(entries[j].vector, qv)
                           /\ i <= j
         IN  <<best>> \o RankFrom(entries, qv, left \ {best})

\* The entries in insertion order: the sort left out.
RankUnsorted(entries, qv) == [i \in 1..Len(entries) |-> i]

Rank(entries, qv) == RankFrom(entries, qv, 1..Len(entries))

\* Chroma.similarity_search_with_score(query, k): embed the query, take the
\* k nearest entries (fewer when the collection holds fewer), nearest first.
SimilaritySearchWithScore(entries, model, q, kk) ==
    LET qv == Embed(model, q)
        order == Rank(entries, qv)
        n == IF Len(entries) < kk THEN Len(entries) ELSE kk
    IN  [r \in 1..n |->
            [doc |-> [page_content |-> entries[order[r]].text,
                      metadata |-> entries[order[r]].metadata],
             score |-> Distance(entries[order[r]].vector, qv)]]

\* A search that would leave out what an earlier search already returned.
SimilaritySearchUnseen(entries, model, q, kk) ==
    LET seen == UNION {{query_log[i].docs[r] : r \in 1..Len(query_log[i].docs)} :
                          i \in 1..Len(query_log)}
        fresh == SelectSeq(entries,
                    LAMBDA e : [page_content |-> e.text, metadata |-> e.metadata]
                                   \notin seen)
        scored == SimilaritySearchWithScore(IF fresh = <<>> THEN entries ELSE fresh,
                                            model, q, kk)
    IN  [r \in 1..Len(scored) |-> scored[r].doc]

\* Chroma.similarity_search(query, k): the documents of the scored search.
SimilaritySearch(entries, model, q, kk) ==
    LET scored == SimilaritySearchWithScore(entries, model, q, kk)
    IN  [r \in 1..Len(scored) |-> scored[r].doc]

(***************************************************************************)
(* Step 6: the prompt and the chain.                                       *)
(***************************************************************************)
\* The three literal segments of the PromptTemplate, around {context} and
\* {question}.  The template is opened by four quotation marks, so that its
\* text starts with one.
TemplateHead ==
    "\"Use the following pieces of context to answer the question at the end. If you don't know the answer, just say that you don't know, don't try to make up an answer.\n\n<context>\n"
TemplateMid == "\n</context>\n\nQuestion: "
TemplateTail == "\nHelpful Answer:"

\* prompt.format(context=..., question=...)
FormatPrompt(context, q) ==
    <<TemplateHead>> \o context \o <<TemplateMid>> \o q \o <<TemplateTail>>

\* The context joined with a blank instead of a newline.
JoinContextBlank(docs) ==
    Join([n \in 1..Len(docs) |-> docs[n].page_content], <<" ">>)

\* "\n".join([d.page_content for d in context_docs])
JoinContext(docs) ==
    Join([n \in 1..Len(docs) |-> docs[n].page_content], <<"\n">>)

\* A chain with a memory: what was asked and answered before goes first.
ChainPromptWithMemory(inputs, history) ==
    [n \in 1..Len(history) |-> history[n].response]
        \o FormatPrompt(inputs.context, inputs.question)

\* LLMChain(llm=llm, prompt=prompt) is built without a memory: the prompt it
\* sends is made of the inputs of the call, whatever was asked before.
ChainPrompt(inputs, history) == FormatPrompt(inputs.context, inputs.question)


(***************************************************************************)
(* The inputs of a run.                                                    *)
(***************************************************************************)
Page1 == <<"a", "b", " ", "a">>
Page2 == <<"b", "\n", "\n", "b", "a">>
Page3 == <<"a", " ", "b", " ", "b">>

File(path, text) == [path |-> path, text |-> text]

\* The rtdocs directory: the visible text of each HTML file.
Corpora ==
    { <<File("f1", Page1)>>,
      <<File("f1", Page1), File("f2", Page2)>>,
      <<File("f1", Page3), File("f2", Page1)>> }

\* chunk_size and chunk_overlap, scaled down from the notebook's 1000 and
\* 200; the last pair is one the TextSplitter constructor refuses.
Configs == { [cs |-> 3, ov |-> 1], [cs |-> 2, ov |-> 0], [cs |-> 2, ov |-> 3] }

\* The configuration the provided chroma-data-langchain-docs was built with.
ProvidedConfig == [cs |-> 3, ov |-> 1]

Questions == { <<"a">>, <<"b", "b">> }
Answers == { "answer1", "answer2" }

NoDb == [dir |-> "none", entries |-> <<>>, model |-> "none"]

\* The folder the notebook ships: the rows an earlier run of Task 4 wrote.
ProvidedRows(fs) ==
    Persist(AddTexts(<<>>,
                     SplitDocuments(LoadDocuments(fs),
                                    ProvidedConfig.cs, ProvidedConfig.ov),
                     AdaModel, 1))

InitRest ==
    /\ error = ""
    /\ doc_tokens = <<>>
    /\ total_tokens = 0
    /\ cost_estimate = 0
    /\ embedding = "none"
    /\ db = NoDb
    /\ ingested = NoDb
    /\ embed_requests = <<>>
    /\ attempts = 0
    /\ query_log = <<>>
    /\ query = <<>>
    /\ results = <<>>
    /\ question = <<>>
    /\ context_docs = <<>>
    /\ result = [text |-> "none"]
    /\ chat_log = <<>>

Init ==
    /\ pc = "task1"
    /\ api_key \in BOOLEAN
    /\ files \in Corpora
    /\ \E c \in Configs : chunk_size = c.cs /\ chunk_overlap = c.ov
    /\ k \in {1, MaxK}
    /\ \E provided \in BOOLEAN :
          disk = [d \in Dirs |->
                     IF d = ProvidedDir /\ provided THEN ProvidedRows(files)
                                                    ELSE <<>>]
    /\ next_id = Len(disk[ProvidedDir]) + 1
    /\ ran = {}
    /\ raw_documents = <<>>
    /\ documents = <<>>
    /\ InitRest

\* The OpenAI clients of langchain (OpenAIEmbeddings, ChatOpenAI) send a
\* request again, up to max_retries times in all, when it fails with one of
\* the errors they retry; any other error, and the last retried one, is
\* raised to the cell.
max_retries == 6
RetriedErrors == {"APIError"}
FatalErrors == {"AuthenticationError"}
ApiErrors == RetriedErrors \cup FatalErrors
\* The attempts followed: a request that ends at its first attempt, and one
\* that ends at the last attempt allowed.
AttemptCounts == {1, max_retries}

\* How many times a request was sent when it ends by raising exc: an error
\* that is retried is raised once the attempts are used up, a bad key is
\* refused at the first.
AttemptsBefore(exc) ==
    IF exc \in RetriedErrors THEN {max_retries} ELSE {1}

\* A cell raises: the run stops there.
Raise(exc) ==
    /\ pc' = "error"
    /\ error' = exc
    /\ UNCHANGED ran

Finish(cell, next) ==
    /\ pc' = next
    /\ ran' = ran \cup {cell}
    /\ UNCHANGED error

(***************************************************************************)
(* Task 1: raw_documents = loader.load()                                   *)
(***************************************************************************)
Task1 ==
    /\ pc = "task1"
    /\ raw_documents' = LoadDocuments(files)
    /\ Finish("task1", "task2")
    /\ UNCHANGED <<inputVars, documents, doc_tokens, total_tokens, cost_estimate,
                   storeVars, askVars, embed_requests, attempts>>

\* A file of the directory cannot be read or parsed: load() raises and
\* raw_documents is not assigned.
Task1Fails ==
    /\ pc = "task1"
    /\ Raise("OSError")
    /\ UNCHANGED <<inputVars, taskVars, storeVars, askVars, embed_requests, attempts>>

(***************************************************************************)
(* Task 2: documents = text_splitter.split_documents(raw_documents)        *)
(***************************************************************************)
\* A chunker whose splitting never comes to an end: the cell does not
\* complete.
Task2Hangs ==
    /\ pc = "task2"
    /\ UNCHANGED vars

\* TextSplitter.__init__ raises ValueError for chunk_overlap > chunk_size.
Task2 ==
    /\ pc = "task2"
    /\ IF chunk_overlap > chunk_size
       THEN /\ Raise("ValueError")
            /\ UNCHANGED documents
       ELSE /\ documents' = SplitDocuments(raw_documents, chunk_size, chunk_overlap)
            /\ Finish("task2", "task3")
    /\ UNCHANGED <<inputVars, raw_documents, doc_tokens, total_tokens, cost_estimate,
                   storeVars, askVars, embed_requests, attempts>>

(***************************************************************************)
(* Task 3: doc_tokens, total_tokens, cost_estimate                         *)
(***************************************************************************)
CostCell(tokens) ==
    /\ pc = "task3"
    /\ doc_tokens' = tokens
    /\ total_tokens' = Sum(tokens)
    /\ cost_estimate' = CostEstimate(Sum(tokens))
    /\ Finish("task3", "task4")
    /\ UNCHANGED <<inputVars, raw_documents, documents, storeVars, askVars,
                   embed_requests, attempts>>

Task3 == CostCell(DocTokens(documents))

\* tiktoken cannot get or apply the encoding: the cell raises before
\* doc_tokens is assigned.
Task3Fails ==
    /\ pc = "task3"
    /\ Raise("TokenizerError")
    /\ UNCHANGED <<inputVars, taskVars, storeVars, askVars, embed_requests, attempts>>

(***************************************************************************)
(* Task 4: embedding = OpenAIEmbeddings(); Chroma.from_documents; persist  *)
(***************************************************************************)
\* OpenAIEmbeddings() validates its environment: without OPENAI_API_KEY the
\* constructor raises.
Task4NoKey ==
    /\ pc = "task4"
    /\ ~api_key
    /\ Raise("ValidationError")
    /\ UNCHANGED <<inputVars, taskVars, storeVars, askVars, embed_requests, attempts>>

\* An OpenAIEmbeddings that would not look for the key when it is built.
Task4Unvalidated ==
    /\ pc = "task4"
    /\ embedding' = AdaModel
    /\ Finish("task4", "alt")
    /\ UNCHANGED <<inputVars, taskVars, disk, db, next_id, ingested, askVars,
                   embed_requests, attempts>>

\* The cell as committed: from_documents and persist are commented out.
Task4AsCommitted ==
    /\ pc = "task4"
    /\ api_key
    /\ embedding' = AdaModel
    /\ Finish("task4", "alt")
    /\ UNCHANGED <<inputVars, taskVars, disk, db, next_id, ingested, askVars,
                   embed_requests, attempts>>

\* embed_documents(texts): the texts go to the embedding API in one request
\* (none when there is no text).
EmbedDocumentsRequest(texts) ==
    IF texts = <<>> THEN embed_requests ELSE Append(embed_requests, texts)

PageContents(docs) == [n \in 1..Len(docs) |-> docs[n].page_content]

\* A from_documents that would start from an empty collection.
FromDocumentsFresh(dir, docs, model) ==
    [dir |-> dir,
     entries |-> AddTexts(<<>>, docs, model, next_id),
     model |-> model]

\* Chroma.from_documents(documents, embedding, persist_directory=dir): open
\* the collection of the directory and add one entry per document.
FromDocuments(dir, docs, model) ==
    [dir |-> dir,
     entries |-> AddTexts(LoadStore(disk[dir]), docs, model, next_id),
     model |-> model]

\* The cell with its two last statements run, as the instructions ask: the
\* directory is "my-embeddings" in the source and was
\* "chroma-data-langchain-docs" in the run that built the provided folder.
Task4Ingest(dir) ==
    /\ pc = "task4"
    /\ api_key
    /\ embedding' = AdaModel
    /\ embed_requests' = EmbedDocumentsRequest(PageContents(documents))
    /\ IF documents = <<>> THEN attempts' = attempts
                           ELSE attempts' \in AttemptCounts
    /\ db' = FromDocuments(dir, documents, AdaModel)
    /\ next_id' = next_id + Len(documents)
    /\ disk' = [disk EXCEPT ![dir] = Persist(db'.entries)]
    /\ ingested' = db'
    /\ Finish("task4", "alt")
    /\ UNCHANGED <<inputVars, taskVars, askVars>>

\* An ingestion that would embed and add chunk by chunk: the first chunk is
\* written when the request for a later one fails.
Task4IngestFailsHalfWritten ==
    /\ pc = "task4"
    /\ api_key
    /\ documents # <<>>
    /\ embedding' = AdaModel
    /\ embed_requests' = EmbedDocumentsRequest(PageContents(documents))
    /\ attempts' = max_retries
    /\ disk' = [disk EXCEPT ![OwnDir] =
                    Persist(AddTexts(LoadStore(disk[OwnDir]), <<documents[1]>>,
                                     AdaModel, next_id))]
    /\ Raise("APIError")
    /\ UNCHANGED <<inputVars, taskVars, db, next_id, ingested, askVars>>

\* The embedding request of from_documents fails: the exception leaves the
\* cell before anything is added or persisted.
Task4IngestFails ==
    /\ pc = "task4"
    /\ api_key
    /\ documents # <<>>
    /\ embedding' = AdaModel
    /\ embed_requests' = EmbedDocumentsRequest(PageContents(documents))
    /\ \E exc \in ApiErrors :
          /\ attempts' \in AttemptsBefore(exc)
          /\ Raise(exc)
    /\ UNCHANGED <<inputVars, taskVars, disk, db, next_id, ingested, askVars>>

(***************************************************************************)
(* Alternative: db = Chroma(persist_directory="chroma-data-langchain-docs",*)
(*                          embedding_function=embedding)                  *)
(***************************************************************************)
\* A handle that would embed its queries with another model than the one
\* it is given.
OpenStoreOtherModel(dir, model) ==
    [dir |-> dir, entries |-> LoadStore(disk[dir]), model |-> "text-embedding-babbage-001"]

OpenStore(dir, model) ==
    [dir |-> dir, entries |-> LoadStore(disk[dir]), model |-> model]

Alternative ==
    /\ pc = "alt"
    /\ embedding' = AdaModel
    /\ db' = OpenStore(ProvidedDir, AdaModel)
    /\ Finish("alt", "step5")
    /\ UNCHANGED <<inputVars, taskVars, disk, next_id, ingested, askVars,
                   embed_requests, attempts>>

\* The alternative is skipped by who has run Task 4 in full.
AlternativeSkipped ==
    /\ pc = "alt"
    /\ db # NoDb
    /\ pc' = "step5"
    /\ UNCHANGED <<error, ran, inputVars, taskVars, storeVars, askVars,
                   embed_requests, attempts>>

(***************************************************************************)
(* Step 5: results = db.similarity_search_with_score(query)                *)
(***************************************************************************)
CanAsk(cell) ==
    /\ pc \in {cell, "rerun"}
    /\ Len(query_log) < MaxQueries

\* A notebook that would go back to Task 4 once the chain has answered.
AfterBackToTask4(cell) == IF pc = "step5" THEN "step6" ELSE "task4"

\* The cell that follows: Step 6 after the first Step 5; after that the two
\* cells are run again at will.
After(cell) == IF pc = "step5" THEN "step6" ELSE "rerun"

Retrieval(q, docs) == [question |-> q, k |-> k, docs |-> docs]

ScoredDocs(scored) == [r \in 1..Len(scored) |-> scored[r].doc]

Step5Query(q) ==
    /\ CanAsk("step5")
    /\ db.entries # <<>>
    /\ query' = q
    /\ embed_requests' = Append(embed_requests, <<q>>)
    /\ attempts' \in AttemptCounts
    /\ results' = SimilaritySearchWithScore(db.entries, db.model, q, k)
    /\ query_log' = Append(query_log, Retrieval(q, ScoredDocs(results')))
    /\ Finish("step5", After("step5"))
    /\ UNCHANGED <<inputVars, taskVars, storeVars, question, context_docs,
                   result, chat_log>>

\* The query is embedded first; an empty collection then has no element to
\* return and the search raises.
QueryEmptyStore(q) ==
    /\ \/ CanAsk("step5")
       \/ CanAsk("step6")
    /\ db.entries = <<>>
    /\ embed_requests' = Append(embed_requests, <<q>>)
    /\ attempts' \in AttemptCounts
    /\ Raise("NotEnoughElementsException")
    /\ UNCHANGED <<inputVars, taskVars, storeVars, askVars>>

\* The embedding request of the query fails.
QueryEmbedFails(q) ==
    /\ \/ CanAsk("step5")
       \/ CanAsk("step6")
    /\ embed_requests' = Append(embed_requests, <<q>>)
    /\ \E exc \in ApiErrors :
          /\ attempts' \in AttemptsBefore(exc)
          /\ Raise(exc)
    /\ UNCHANGED <<inputVars, taskVars, storeVars, askVars>>

(***************************************************************************)
(* Step 6: context_docs, prompt, qa_chain, result["text"]                  *)
(***************************************************************************)
ChainInputs(docs, q) == [context |-> JoinContext(docs), question |-> q]

ChatRequest(q, docs, response) ==
    [question |-> q,
     query |-> q,
     prompt |-> ChainPrompt(ChainInputs(docs, q), chat_log),
     temperature |-> 0,
     response |-> response]

Step6Chat(q, answer) ==
    /\ CanAsk("step6")
    /\ db.entries # <<>>
    /\ question' = q
    /\ embed_requests' = Append(embed_requests, <<q>>)
    /\ context_docs' = SimilaritySearch(db.entries, db.model, q, k)
    /\ query_log' = Append(query_log, Retrieval(q, context_docs'))
    /\ chat_log' = Append(chat_log, ChatRequest(q, context_docs', answer))
    /\ result' = [text |-> answer]
    /\ attempts' \in AttemptCounts
    /\ Finish("step6", "rerun")
    /\ UNCHANGED <<inputVars, taskVars, storeVars, query, results>>

\* The chat-completion request fails: the chain raises and result is not set.
Step6ChatFails(q) ==
    /\ CanAsk("step6")
    /\ db.entries # <<>>
    /\ question' = q
    /\ embed_requests' = Append(embed_requests, <<q>>)
    /\ context_docs' = SimilaritySearch(db.entries, db.model, q, k)
    /\ query_log' = Append(query_log, Retrieval(q, context_docs'))
    /\ chat_log' = Append(chat_log, ChatRequest(q, context_docs', "error"))
    /\ \E exc \in ApiErrors :
          /\ attempts' \in AttemptsBefore(exc)
          /\ Raise(exc)
    /\ UNCHANGED <<inputVars, taskVars, storeVars, query, results, result>>

Next ==
    \/ Task1
    \/ Task1Fails
    \/ Task2
    \/ Task3
    \/ Task3Fails
    \/ Task4NoKey
    \/ Task4AsCommitted
    \/ \E dir \in Dirs : Task4Ingest(dir)
    \/ Task4IngestFails
    \/ Alternative
    \/ AlternativeSkipped
    \/ \E q \in Questions : Step5Query(q)
    \/ \E q \in Questions : QueryEmptyStore(q)
    \/ \E q \in Questions : QueryEmbedFails(q)
    \/ \E q \in Questions, answer \in Answers : Step6Chat(q, answer)
    \/ \E q \in Questions : Step6ChatFails(q)

Spec == Init /\ [][Next]_vars

(***************************************************************************)
(* The chunker alone, on every document of the bounded alphabet and every  *)
(* chunk_size and chunk_overlap up to MaxChunk.                            *)
(***************************************************************************)
Document(text) == [page_content |-> text, metadata |-> [source |-> "f1"]]

InitIdle ==
    /\ api_key = TRUE
    /\ k = 1
    /\ disk = [d \in Dirs |-> <<>>]
    /\ next_id = 1
    /\ InitRest

InitChunk ==
    /\ pc = "task2"
    /\ ran = {"task1"}
    /\ \E t \in Texts :
          /\ files = <<File("f1", t)>>
          /\ raw_documents = <<Document(t)>>
    /\ chunk_size \in 1..MaxChunk
    /\ chunk_overlap \in 0..MaxChunk
    /\ documents = <<>>
    /\ InitIdle

SpecChunk == InitChunk /\ [][Task2]_vars

\* The chunker again, from one starting state: a document and a splitter
\* are chosen first, then the cell is run.  A cell that is run and can
\* complete does complete.
InitSplitter ==
    /\ pc = "splitter"
    /\ ran = {"task1"}
    /\ files = <<File("f1", <<>>)>>
    /\ raw_documents = <<Document(<<>>)>>
    /\ chunk_size = 1
    /\ chunk_overlap = 0
    /\ documents = <<>>
    /\ InitIdle

\* raw_documents as loaded, and RecursiveCharacterTextSplitter(chunk_size=...,
\* chunk_overlap=...) with any sizes.
NewSplitter ==
    /\ pc = "splitter"
    /\ \E t \in Texts :
          /\ files' = <<File("f1", t)>>
          /\ raw_documents' = <<Document(t)>>
    /\ chunk_size' \in 1..MaxChunk
    /\ chunk_overlap' \in 0..MaxChunk
    /\ pc' = "task2"
    /\ UNCHANGED <<error, ran, api_key, k, documents, doc_tokens, total_tokens,
                   cost_estimate, storeVars, askVars, embed_requests, attempts>>

SpecChunkFair ==
    /\ InitSplitter
    /\ [][NewSplitter \/ Task2]_vars
    /\ WF_vars(NewSplitter)
    /\ WF_vars(Task2)

\* The loader and the chunker, from every file text of the bounded alphabet.
InitLoadChunk ==
    /\ pc = "task1"
    /\ \E t \in Texts : files = <<File("f1", t)>>
    /\ chunk_size \in 1..MaxChunk
    /\ chunk_overlap \in 0..MaxChunk
    /\ ran = {}
    /\ raw_documents = <<>>
    /\ documents = <<>>
    /\ InitIdle

SpecLoadChunk == InitLoadChunk /\ [][Task1 \/ Task2]_vars

(***************************************************************************)
(* The cost estimate alone, on token counts as large as the notebook's.    *)
(***************************************************************************)
\* Token counts an encoder may return for a chunk.
TokenSamples == {0, 1, 7, 999, 1000, 1001, 2500, 50000, 75000, 150000}

TokenLists == UNION {[1..n -> TokenSamples] : n \in 0..MaxCostDocs}

InitCost ==
    /\ pc = "task3"
    /\ ran = {"task1", "task2"}
    /\ files = <<File("f1", Page3)>>
    /\ raw_documents = <<Document(Page3)>>
    /\ chunk_size = 1
    /\ chunk_overlap = 0
    /\ \E n \in 0..MaxCostDocs : documents = [i \in 1..n |-> Document(<<"a">>)]
    /\ InitIdle

\* Task 3 with the counts the encoder returned for the chunks, one each.
CostCellSampled ==
    \E tokens \in TokenLists :
        /\ Len(tokens) = Len(documents)
        /\ CostCell(tokens)

SpecCost == InitCost /\ [][Task3 \/ CostCellSampled]_vars

(***************************************************************************)
(* Properties of the chunker.                                              *)
(***************************************************************************)
Chunked == "task2" \in ran

\* The texts of the chunks made from one document, in the order produced.
ChunkTexts(doc) ==
    PageContents(SelectSeq(documents, LAMBDA c : c.metadata = doc.metadata))

IsSingleWord(t) == t # <<>> /\ \A i \in 1..Len(t) : t[i] \in Letters

\* C1: with chunk_overlap < chunk_size, every chunk the chunker produces has
\* at most chunk_size characters, unless it is a single word that is itself
\* longer than chunk_size.
C1_ChunkWithinSize ==
    (Chunked /\ chunk_overlap < chunk_size) =>
        \A n \in 1..Len(documents) :
            \/ Len(documents[n].page_content) <= chunk_size
            \/ /\ IsSingleWord(documents[n].page_content)
               /\ Len(documents[n].page_content) > chunk_size

\* A document longer than chunk_size with whitespace in it was split into
\* several chunks, one of them of exactly chunk_size characters.
C1_Witness ==
    /\ Chunked
    /\ chunk_overlap < chunk_size
    /\ chunk_size >= 2
    /\ Len(raw_documents[1].page_content) > chunk_size
    /\ ~IsSingleWord(raw_documents[1].page_content)
    /\ Len(documents) >= 2
    /\ \E n \in 1..Len(documents) : Len(documents[n].page_content) = chunk_size

\* The chunks re-joined as the specification describes: the first chunk,
\* then every later chunk without its first overlap characters.
RECURSIVE Rejoin(_, _, _)
Rejoin(chunks, n, overlap) ==
    IF n > Len(chunks) THEN <<>>
    ELSE (IF n = 1 THEN chunks[n]
          ELSE SubSeq(chunks[n], overlap + 1, Len(chunks[n])))
         \o Rejoin(chunks, n + 1, overlap)

\* C2 as stated: re-joining the chunks of a document, each chunk after the
\* first without its first chunk_overlap characters, gives the document text.
C2_RejoinIsText ==
    (Chunked /\ chunk_overlap < chunk_size) =>
        \A d \in 1..Len(raw_documents) :
            Rejoin(ChunkTexts(raw_documents[d]), 1, chunk_overlap)
                = raw_documents[d].page_content

Max(x, y) == IF x >= y THEN x ELSE y

\* The chunks from the n-th on can be laid on the text at starts that never
\* go back, from minStart on, so that every character after position
\* `covered` that no chunk covers is whitespace.
RECURSIVE CoversInOrder(_, _, _, _, _)
CoversInOrder(text, chunks, n, minStart, covered) ==
    IF n > Len(chunks)
    THEN \A i \in (covered + 1)..Len(text) : text[i] \in Whitespace
    ELSE \E p \in minStart..Len(text) :
            /\ OccursAt(text, chunks[n], p)
            /\ \A i \in (covered + 1)..(p - 1) : text[i] \in Whitespace
            /\ CoversInOrder(text, chunks, n + 1, p,
                             Max(covered, p + Len(chunks[n]) - 1))

\* C2 amended: every chunk is a contiguous piece of the document text, the
\* chunks lie on the text in the order they were produced, and every
\* character of the text that lies in no chunk is whitespace.
C2_ChunksCoverText ==
    (Chunked /\ chunk_overlap < chunk_size) =>
        \A d \in 1..Len(raw_documents) :
            LET text == raw_documents[d].page_content
                chunks == ChunkTexts(raw_documents[d])
            IN  /\ \A n \in 1..Len(chunks) :
                      chunks[n] # <<>> /\ IsSubstring(chunks[n], text)
                /\ CoversInOrder(text, chunks, 1, 1, 0)

\* A document was split into three or more chunks that overlap, none of
\* them holding the whitespace the document has.
C2_Witness ==
    /\ Chunked
    /\ 0 < chunk_overlap
    /\ chunk_overlap < chunk_size
    /\ \E d \in 1..Len(raw_documents) :
          LET text == raw_documents[d].page_content
              chunks == ChunkTexts(raw_documents[d])
          IN  /\ Len(chunks) >= 3
              /\ Sum([n \in 1..Len(chunks) |-> Len(chunks[n])]) > Len(text)
              /\ \E i \in 1..Len(text) : text[i] \in Whitespace
              /\ \A n \in 1..Len(chunks) :
                    \A j \in 1..Len(chunks[n]) : chunks[n][j] \in Letters

(***************************************************************************)
(* Properties of the pipeline.                                             *)
(***************************************************************************)
Last(seq) == seq[Len(seq)]

IsPrefix(s, t) == Len(s) <= Len(t) /\ SubSeq(t, 1, Len(s)) = s

\* The distance from a question to a text, both embedded by the model of
\* the store that is searched.
DistanceTo(q, text) == Distance(Embed(db.model, q), Embed(db.model, text))

\* C3: a query returns at most k results, in order of non-decreasing
\* distance to the query vector: no result is followed by a nearer one.
C3_AtMostKNearestFirst ==
    /\ "step5" \in ran =>
          /\ Len(results) <= k
          /\ \A r \in 1..Len(results) :
                results[r].score = DistanceTo(query, results[r].doc.page_content)
          /\ \A r \in 1..(Len(results) - 1) :
                results[r].score <= results[r + 1].score
    /\ \A i \in 1..Len(query_log) :
          /\ Len(query_log[i].docs) <= query_log[i].k
          /\ \A r \in 1..(Len(query_log[i].docs) - 1) :
                DistanceTo(query_log[i].question, query_log[i].docs[r].page_content)
                  <= DistanceTo(query_log[i].question,
                                query_log[i].docs[r + 1].page_content)

\* Step 5 has searched a store of more than k entries and returned k of
\* them, the second farther than the first, the nearest not the first stored.
C3_Witness ==
    /\ "step5" \in ran
    /\ k >= 2
    /\ Len(db.entries) > k
    /\ Len(results) = k
    /\ results[1].score < results[2].score
    /\ results[1].doc.page_content # db.entries[1].text

StageCells == {"task1", "task2", "task3", "task4", "alt", "step5", "step6"}

\* C6 as stated: without the API credential no pipeline stage runs.
C6_NoStageWithoutKey == ~api_key => ran = {}

\* C6 amended: without the API credential documents are loaded, chunked and
\* counted, and the run then stops in Task 4, where OpenAIEmbeddings() raises
\* the configuration error: no store is opened, written or queried and no
\* request goes to either API.
C6_StopsAtFirstClient ==
    ~api_key =>
        /\ pc \in {"task1", "task2", "task3", "task4", "error"}
        /\ ran \subseteq {"task1", "task2", "task3"}
        /\ pc = "error" => /\ error \in {"OSError", "ValueError", "TokenizerError",
                                         "ValidationError"}
                           /\ error = "ValidationError" <=> "task3" \in ran
        /\ embedding = "none"
        /\ db = NoDb
        /\ ingested = NoDb
        /\ \A d \in Dirs : Len(disk[d]) < next_id /\ (d # ProvidedDir => disk[d] = <<>>)
        /\ embed_requests = <<>>
        /\ query_log = <<>>
        /\ chat_log = <<>>

\* Without the credential the run has loaded, chunked and counted the
\* documents and has stopped on the configuration error of Task 4.
C6_Witness ==
    /\ ~api_key
    /\ pc = "error"
    /\ error = "ValidationError"
    /\ ran = {"task1", "task2", "task3"}
    /\ documents # <<>>
    /\ total_tokens > 0

\* C7: the store is append-only during ingestion and read-only during query:
\* no step removes or alters a row already in a persist directory, the
\* collection Task 4 leaves starts with the entries the directory held, and
\* the query and chat cells leave the directories and the open collection
\* (id, vector, text, metadata of every entry) as they were.
C7_AppendOnlyThenReadOnly ==
    [][ /\ \A d \in Dirs : IsPrefix(disk[d], disk'[d])
        /\ (pc = "task4" /\ db' # db) =>
               /\ IsPrefix(LoadStore(disk[db'.dir]), db'.entries)
               /\ disk'[db'.dir] = Persist(db'.entries)
        /\ pc \in {"step5", "step6", "rerun"} => disk' = disk /\ db' = db
      ]_vars

\* Task 4 has added the chunks to a directory that already held entries, and
\* the collection has since been queried and used for a chat call.
C7_Witness ==
    /\ ingested.dir = ProvidedDir
    /\ documents # <<>>
    /\ Len(ingested.entries) > Len(documents)
    /\ disk[ProvidedDir] = Persist(ingested.entries)
    /\ db = ingested
    /\ "step5" \in ran
    /\ chat_log # <<>>
    /\ pc = "rerun"

C9_NoConversationMemory ==
    \A i, j \in 1..Len(chat_log) :
        chat_log[i].question = chat_log[j].question =>
            /\ chat_log[i].prompt = chat_log[j].prompt
            /\ chat_log[i].query = chat_log[j].query

\* The same question has been asked in two chat calls, with another question
\* asked and answered between them.
C9_Witness ==
    /\ Len(chat_log) >= 3
    /\ chat_log[1].question = chat_log[3].question
    /\ chat_log[2].question # chat_log[1].question
    /\ chat_log[2].prompt # chat_log[1].prompt
    /\ chat_log[2].response # chat_log[1].response

\* C10: a chat call sends one request, whose prompt is the template with
\* {context} replaced by the texts of the chunks the store returned for the
\* question, in retrieval order, joined by a newline, and {question}
\* replaced by the question; result["text"] is the response to that request.
C10_PromptAndAnswer ==
    [][ chat_log' # chat_log =>
            LET req == Last(chat_log')
                texts == [r \in 1..Len(context_docs') |->
                             context_docs'[r].page_content]
            IN  /\ chat_log' = Append(chat_log, req)
                /\ req.question = question'
                /\ req.temperature = 0
                /\ context_docs' = ScoredDocs(SimilaritySearchWithScore(
                                        db.entries, db.model, question', k))
                /\ Last(query_log') = Retrieval(question', context_docs')
                /\ req.prompt = <<TemplateHead>> \o Join(texts, <<"\n">>)
                                    \o <<TemplateMid>> \o question'
                                    \o <<TemplateTail>>
                /\ pc' # "error" => result'.text = req.response
                /\ pc' = "error" => result' = result
      ]_vars

\* A chat call has been answered from two retrieved chunks, whose texts are
\* in the prompt, and its response is the result.
C10_Witness ==
    /\ chat_log # <<>>
    /\ pc = "rerun"
    /\ Len(context_docs) >= 2
    /\ context_docs[1].page_content # context_docs[2].page_content
    /\ Last(chat_log).question = question
    /\ result.text = Last(chat_log).response
    /\ result.text \in Answers

\* C11: every query, the retrieval of the chat cell included, embeds its
\* text with the model that produced the vectors of the collection it
\* searches: the open collection embeds with text-embedding-ada-002, every
\* vector it holds is that model's vector of the entry's text, and every
\* score of Step 5 is the distance between that model's vectors of the query
\* and of the returned text, and the latest retrieval (of Step 5 or of the
\* chat cell) is the search made with that model's vector of its question.
C11_SameEmbeddingModel ==
    /\ db # NoDb =>
          /\ db.model = AdaModel
          /\ db.model = embedding
          /\ \A n \in 1..Len(db.entries) :
                 db.entries[n].vector = Embed(db.model, db.entries[n].text)
    /\ "step5" \in ran =>
          \A r \in 1..Len(results) :
              results[r].score
                  = Distance(Embed(AdaModel, query),
                             Embed(AdaModel, results[r].doc.page_content))
    /\ query_log # <<>> =>
          Last(query_log).docs
              = SimilaritySearch(db.entries, AdaModel, Last(query_log).question, k)

\* Task 4 has embedded the chunks, the alternative cell has opened the
\* directory with a second OpenAIEmbeddings(), and the collection has
\* answered Step 5 and a chat call.
C11_Witness ==
    /\ ingested.dir = ProvidedDir
    /\ "alt" \in ran
    /\ db.entries # <<>>
    /\ Len(db.entries) >= 2
    /\ results # <<>>
    /\ chat_log # <<>>
    /\ context_docs # <<>>

(***************************************************************************)
(* The overlap of adjacent chunks.                                         *)
(***************************************************************************)
\* The last n characters of a text.
Suffix(t, n) == SubSeq(t, Len(t) - n + 1, Len(t))

\* C13 as stated: each chunk after the first of a document begins with
\* exactly the last chunk_overlap characters of the chunk before it.
C13_OverlapExact ==
    (Chunked /\ chunk_overlap < chunk_size) =>
        \A d \in 1..Len(raw_documents) :
            LET chunks == ChunkTexts(raw_documents[d])
            IN  \A n \in 2..Len(chunks) :
                    /\ Len(chunks[n - 1]) >= chunk_overlap
                    /\ Len(chunks[n]) >= chunk_overlap
                    /\ SubSeq(chunks[n], 1, chunk_overlap)
                           = Suffix(chunks[n - 1], chunk_overlap)

\* The chunks from the n-th on can be laid on the text in order, covering
\* everything but whitespace, each starting so that it shares at most ov
\* positions with the chunk laid before it (which ends at prevEnd).
RECURSIVE LaidWithOverlap(_, _, _, _, _, _, _)
LaidWithOverlap(text, chunks, n, minStart, prevEnd, covered, ov) ==
    IF n > Len(chunks)
    THEN \A i \in (covered + 1)..Len(text) : text[i] \in Whitespace
    ELSE \E p \in minStart..Len(text) :
            /\ OccursAt(text, chunks[n], p)
            /\ prevEnd - p + 1 <= ov
            /\ \A i \in (covered + 1)..(p - 1) : text[i] \in Whitespace
            /\ LaidWithOverlap(text, chunks, n + 1, p, p + Len(chunks[n]) - 1,
                               Max(covered, p + Len(chunks[n]) - 1), ov)

\* C13 amended: laid on the document text in the order produced, each chunk
\* after the first shares at most chunk_overlap characters with the chunk
\* before it.
C13_OverlapAtMost ==
    (Chunked /\ chunk_overlap < chunk_size) =>
        \A d \in 1..Len(raw_documents) :
            LaidWithOverlap(raw_documents[d].page_content,
                            ChunkTexts(raw_documents[d]), 1, 1, 0, 0,
                            chunk_overlap)

\* A document was split into three or more chunks with an overlap asked
\* for: one chunk begins with the last chunk_overlap characters of the chunk
\* before it, and another does not.
C13_Witness ==
    /\ Chunked
    /\ 0 < chunk_overlap
    /\ chunk_overlap < chunk_size
    /\ \E d \in 1..Len(raw_documents) :
          LET chunks == ChunkTexts(raw_documents[d])
          IN  /\ Len(chunks) >= 3
              /\ \E n \in 2..Len(chunks) :
                    /\ Len(chunks[n - 1]) >= chunk_overlap
                    /\ Len(chunks[n]) > chunk_overlap
                    /\ SubSeq(chunks[n], 1, chunk_overlap)
                           = Suffix(chunks[n - 1], chunk_overlap)
                    /\ ~LaidWithOverlap(raw_documents[d].page_content,
                                        chunks, 1, 1, 0, 0, chunk_overlap - 1)
              /\ \E n \in 2..Len(chunks) :
                    chunks[n][1] # Last(chunks[n - 1])

(***************************************************************************)
(* The entries Task 4 writes.                                              *)
(***************************************************************************)
\* The n-th entry is the entry of the chunk: its text, its metadata and the
\* vector of its text.
EntryOfChunk(entry, chunk) ==
    /\ entry.text = chunk.page_content
    /\ entry.metadata = chunk.metadata
    /\ entry.vector = Embed(AdaModel, chunk.page_content)

\* C14 as stated: after Task 4 has run from_documents and persist, the
\* store holds exactly one entry per chunk, with the chunk's text, metadata
\* and vector.
C14_OneEntryPerChunk ==
    ingested # NoDb =>
        /\ Len(ingested.entries) = Len(documents)
        /\ \A n \in 1..Len(documents) :
               EntryOfChunk(ingested.entries[n], documents[n])

\* C14 amended: from_documents adds exactly one entry per chunk, in order,
\* after the entries the directory already held; each added entry has a
\* fresh id, the chunk's text and metadata and the vector of that text, which
\* was asked for in one request naming each text once; from then on no step
\* changes these entries, in the directory or in a collection opened on it.
C14_OneNewEntryPerChunk ==
    [][ /\ ingested' # ingested =>
               LET held == LoadStore(disk[ingested'.dir])
                   new == ingested'.entries
               IN  /\ Len(new) = Len(held) + Len(documents)
                   /\ SubSeq(new, 1, Len(held)) = held
                   /\ \A n \in 1..Len(documents) :
                          EntryOfChunk(new[Len(held) + n], documents[n])
                   /\ \A m, n \in 1..Len(new) : new[m].id = new[n].id => m = n
                   /\ embed_requests' =
                          IF documents = <<>> THEN embed_requests
                          ELSE Append(embed_requests, PageContents(documents))
                   /\ disk'[ingested'.dir] = Persist(new)
                   /\ db' = ingested'
        /\ ingested # NoDb =>
               /\ ingested' = ingested
               /\ disk' = disk
               /\ disk[ingested.dir] = Persist(ingested.entries)
               /\ db'.dir = ingested.dir => db'.entries = ingested.entries
      ]_vars

\* Task 4 has added two or more chunks with different vectors to the
\* directory that already held the provided entries, and the directory has
\* since been opened and queried.
C14_Witness ==
    /\ ingested.dir = ProvidedDir
    /\ Len(documents) >= 2
    /\ Len(ingested.entries) > Len(documents)
    /\ \E m, n \in 1..Len(documents) :
          Embed(AdaModel, documents[m].page_content)
              # Embed(AdaModel, documents[n].page_content)
    /\ "alt" \in ran
    /\ query_log # <<>>
    /\ pc = "rerun"

(***************************************************************************)
(* Errors.                                                                 *)
(***************************************************************************)
\* The exceptions a cell can end with.
ErrorsOf(cell) ==
    CASE cell = "task1" -> {"OSError"}
      [] cell = "task2" -> {"ValueError"}
      [] cell = "task3" -> {"TokenizerError"}
      [] cell = "task4" -> {"ValidationError"} \cup ApiErrors
      [] cell = "alt" -> {}
      [] OTHER -> {"NotEnoughElementsException"} \cup ApiErrors

\* C15 as stated: an error of an external call is surfaced at the stage
\* where it happened, the failed call was sent once and never again, nothing
\* of the stage runs after it and a failed ingestion has written no entry.
C15_SurfacedNotRetried ==
    pc = "error" =>
        /\ error # ""
        /\ error \in ApiErrors => attempts = 1
        /\ "task4" \notin ran =>
               /\ db = NoDb
               /\ ingested = NoDb
               /\ disk[OwnDir] = <<>>

\* C15 amended: a cell that raises ends the run there, with an exception of
\* that cell: the cell is not completed, no variable it assigns after the
\* failing call is assigned, a failed ingestion leaves the directories and
\* the collection as they were, and no step follows.  A request that fails
\* with an error the OpenAI client retries has been sent max_retries times
\* before the error is raised; an error it does not retry is raised at the
\* first attempt.
C15_SurfacedAfterRetries ==
    [][ /\ pc # "error"
        /\ pc' = "error" =>
               /\ error' \in ErrorsOf(pc)
               /\ ran' = ran
               /\ taskVars' = taskVars
               /\ disk' = disk /\ db' = db /\ ingested' = ingested
               /\ next_id' = next_id
               /\ results' = results /\ result' = result
               /\ error' \in RetriedErrors => attempts' = max_retries
               /\ error' \in FatalErrors => attempts' = 1
               /\ error' \notin ApiErrors /\ pc \in {"task1", "task2", "task3", "task4"}
                      => attempts' = attempts /\ embed_requests' = embed_requests
      ]_vars

\* The embedding request of Task 4 for two or more chunks has failed with an
\* error the client retries: it was sent max_retries times, the run has
\* stopped in Task 4 and nothing was written.
C15_Witness ==
    /\ pc = "error"
    /\ error \in RetriedErrors
    /\ ran = {"task1", "task2", "task3"}
    /\ Len(documents) >= 2
    /\ embed_requests = <<PageContents(documents)>>
    /\ attempts = max_retries
    /\ db = NoDb
    /\ disk[OwnDir] = <<>>

(***************************************************************************)
(* The order of the stages.                                                *)
(***************************************************************************)
\* The stage a position of the run belongs to: load, chunk, count, embed and
\* store or load the store, query and chat; 6 for a run that has stopped.
StageOf(p) ==
    CASE p = "task1" -> 1
      [] p = "task2" -> 2
      [] p = "task3" -> 3
      [] p \in {"task4", "alt"} -> 4
      [] p \in {"step5", "step6", "rerun"} -> 5
      [] OTHER -> 6

\* The cells of the stages before stage n.
CellsBefore(n) ==
    {c \in {"task1", "task2", "task3", "task4"} : StageOf(c) < n}

\* C16: control flows strictly forward through the five stages: every step
\* stays in its stage or goes to the next one (or stops the run), a stage is
\* entered only when the cells of the stages before it have completed, no
\* cell of an earlier stage completes once a later stage is entered, and
\* nothing is written to a directory or to the open collection once a query
\* has been made.
C16_StagesForward ==
    [][ /\ StageOf(pc') >= StageOf(pc)
        /\ pc' # "error" => StageOf(pc') <= StageOf(pc) + 1
        /\ pc' # "error" => CellsBefore(StageOf(pc')) \subseteq ran'
        /\ \A c \in ran' \ ran : StageOf(c) = StageOf(pc)
        /\ StageOf(pc) <= 3 => disk' = disk /\ db' = db /\ query_log' = query_log
        /\ query_log # <<>> => disk' = disk /\ db' = db /\ taskVars' = taskVars
      ]_vars

\* Every stage has run: Task 4 has written the chunks to a directory, the
\* alternative cell has opened the store, and Step 5 and Step 6 have been
\* run, and run again, on the store as Task 4 left it.
C16_Witness ==
    /\ ran = {"task1", "task2", "task3", "task4", "alt", "step5", "step6"}
    /\ pc = "rerun"
    /\ ingested.dir = ProvidedDir
    /\ documents # <<>>
    /\ disk[ProvidedDir] = Persist(ingested.entries)
    /\ db.entries = ingested.entries
    /\ Len(query_log) >= 4
    /\ Len(chat_log) >= 2

=============================================================================
